---- MODULE Spec2Model ----
(***************************************************************************)
(* A model of iam_actions/action_map.py: the action-table flattener, the   *)
(* record builder, the per-service reconciliation of documented actions    *)
(* against the known action names, and the catalog build.                  *)
(*                                                                         *)
(* Text is modelled as a sequence of tokens.  A token is a fragment of a   *)
(* Python string without white space inside: a single character (" ", "*", *)
(* ":", "a") or a word that the code only ever treats as a whole ("Read",  *)
(* "SCENARIO", "[permission").  Concatenation of strings is concatenation  *)
(* of token sequences, and Codes gives the code points of each token so    *)
(* that the order of Python strings is the order of the code sequences.    *)
(* The texts of table headers are sequences of single characters.          *)
(***************************************************************************)
EXTENDS Integers, Sequences, FiniteSets, TLC

(***************************************************************************)
(* Bounds of the model.                                                    *)
(***************************************************************************)
MaxRuns == 2
MaxRows == 3

(***************************************************************************)
(* Python str                                                              *)
(***************************************************************************)
SP == " "

Codes(c) ==
  CASE
       c = " " -> <<32>>
    [] c = "*" -> <<42>>
    [] c = "-" -> <<45>>
    [] c = ":" -> <<58>>
    [] c = "a" -> <<97>>
    [] c = "b" -> <<98>>
    [] c = "c" -> <<99>>
    [] c = "p" -> <<112>>
    [] c = "q" -> <<113>>
    [] c = "z" -> <<122>>
    [] c = "y" -> <<121>>
    [] c = "r" -> <<114>>
    [] c = "s" -> <<115>>
    [] c = "k" -> <<107>>
    [] c = "G" -> <<71>>
    [] c = "L" -> <<76>>
    [] c = "P" -> <<80>>
    [] c = "Read" -> <<82, 101, 97, 100>>
    [] c = "Write" -> <<87, 114, 105, 116, 101>>
    [] c = "Put" -> <<80, 117, 116>>
    [] c = "Delete" -> <<68, 101, 108, 101, 116, 101>>
    [] c = "Get" -> <<71, 101, 116>>
    [] c = "List" -> <<76, 105, 115, 116>>
    [] c = "Permissions" -> <<80, 101, 114, 109, 105, 115, 115, 105, 111, 110, 115>>
    [] c = "management" -> <<109, 97, 110, 97, 103, 101, 109, 101, 110, 116>>
    [] c = "Tagging" -> <<84, 97, 103, 103, 105, 110, 103>>
    [] c = "Replicate" -> <<82, 101, 112, 108, 105, 99, 97, 116, 101>>
    [] c = "None" -> <<78, 111, 110, 101>>
    [] c = "Undocumented" -> <<85, 110, 100, 111, 99, 117, 109, 101, 110, 116, 101, 100>>
    [] c = "Maybe" -> <<77, 97, 121, 98, 101>>
    [] c = "SCENARIO" -> <<83, 67, 69, 78, 65, 82, 73, 79>>
    [] c = "[permission" -> <<91, 112, 101, 114, 109, 105, 115, 115, 105, 111, 110>>
    [] c = "only]" -> <<111, 110, 108, 121, 93>>
    [] c = "Not" -> <<78, 111, 116>>
    [] c = "Documented" -> <<68, 111, 99, 117, 109, 101, 110, 116, 101, 100>>
    [] c = "by" -> <<98, 121>>
    [] c = "AWS" -> <<65, 87, 83>>
    [] c = "list_" -> <<108, 105, 115, 116, 95>>
    [] c = ".html" -> <<46, 104, 116, 109, 108>>
    [] c = "Service missing URL map: " -> <<83, 101, 114, 118, 105, 99, 101, 32, 109, 105, 115, 115, 105, 110, 103, 32, 85, 82, 76, 32, 109, 97, 112, 58, 32>>
    [] c = "Page missing actions table: " -> <<80, 97, 103, 101, 32, 109, 105, 115, 115, 105, 110, 103, 32, 97, 99, 116, 105, 111, 110, 115, 32, 116, 97, 98, 108, 101, 58, 32>>
    [] c = "Undocumented action found: " -> <<85, 110, 100, 111, 99, 117, 109, 101, 110, 116, 101, 100, 32, 97, 99, 116, 105, 111, 110, 32, 102, 111, 117, 110, 100, 58, 32>>
    [] c = "Unmapped service is being published: " -> <<85, 110, 109, 97, 112, 112, 101, 100, 32, 115, 101, 114, 118, 105, 99, 101, 32, 105, 115, 32, 98, 101, 105, 110, 103, 32, 112, 117, 98, 108, 105, 115, 104, 101, 100, 58, 32>>

RECURSIVE StrCodes(_)
StrCodes(s) == IF s = <<>> THEN <<>> ELSE Codes(Head(s)) \o StrCodes(Tail(s))

RECURSIVE CodesLess(_, _)
CodesLess(u, v) ==
  IF v = <<>> THEN FALSE
  ELSE IF u = <<>> THEN TRUE
  ELSE IF Head(u) # Head(v) THEN Head(u) < Head(v)
  ELSE CodesLess(Tail(u), Tail(v))

\* s < t for Python strings
StrLess(s, t) == CodesLess(StrCodes(s), StrCodes(t))

IsSpace(c) == c = SP

RECURSIVE LStrip(_)
LStrip(s) == IF s # <<>> /\ IsSpace(Head(s)) THEN LStrip(Tail(s)) ELSE s

RECURSIVE RStrip(_)
RStrip(s) ==
  IF s # <<>> /\ IsSpace(s[Len(s)]) THEN RStrip(SubSeq(s, 1, Len(s) - 1)) ELSE s

\* str.strip()
Strip(s) == RStrip(LStrip(s))

\* str.replace(tok, "") for a pattern that is one token
RemoveTok(s, tok) == SelectSeq(s, LAMBDA c : c # tok)

RECURSIVE RemoveAll(_, _)
\* str.replace(pat, "") for a pattern of several tokens: the occurrences are
\* taken out from left to right, and what is left is not looked at again
RemoveAll(s, pat) ==
  IF Len(s) < Len(pat) THEN s
  ELSE IF SubSeq(s, 1, Len(pat)) = pat
       THEN RemoveAll(SubSeq(s, Len(pat) + 1, Len(s)), pat)
       ELSE <<Head(s)>> \o RemoveAll(Tail(s), pat)

\* tok in s
Contains(s, tok) == \E i \in 1..Len(s) : s[i] = tok

RECURSIVE SplitFrom(_, _, _)
SplitFrom(s, cur, acc) ==
  IF s = <<>> THEN (IF cur = <<>> THEN acc ELSE Append(acc, cur))
  ELSE IF IsSpace(Head(s))
       THEN SplitFrom(Tail(s), <<>>, IF cur = <<>> THEN acc ELSE Append(acc, cur))
       ELSE SplitFrom(Tail(s), Append(cur, Head(s)), acc)

\* str.split()
Split(s) == SplitFrom(s, <<>>, <<>>)

RECURSIVE Join(_, _)
\* sep.join(parts)
Join(sep, parts) ==
  IF parts = <<>> THEN <<>>
  ELSE IF Len(parts) = 1 THEN parts[1]
  ELSE parts[1] \o sep \o Join(sep, Tail(parts))

RECURSIVE InsertSorted(_, _)
InsertSorted(sorted, s) ==
  IF sorted = <<>> THEN <<s>>
  ELSE IF StrLess(s, Head(sorted)) THEN <<s>> \o sorted
  ELSE <<Head(sorted)>> \o InsertSorted(Tail(sorted), s)

RECURSIVE Sorted(_)
\* sorted(list of str)
Sorted(seq) ==
  IF seq = <<>> THEN <<>>
  ELSE InsertSorted(Sorted(SubSeq(seq, 1, Len(seq) - 1)), seq[Len(seq)])

RECURSIVE SortedSet(_)
\* sorted(set of str)
SortedSet(S) ==
  IF S = {} THEN <<>>
  ELSE LET m == CHOOSE x \in S : \A y \in S : ~StrLess(y, x)
       IN <<m>> \o SortedSet(S \ {m})

Range(seq) == {seq[i] : i \in 1..Len(seq)}

Count(x, seq) == Cardinality({i \in 1..Len(seq) : seq[i] = x})

Perms(S) ==
  {f \in [1..Cardinality(S) -> S] : \A i, j \in DOMAIN f : f[i] = f[j] => i = j}

(***************************************************************************)
(* Names: services (groups), documentation pages, action names             *)
(***************************************************************************)
SvcA == <<"a">>
SvcB == <<"b">>
SvcC == <<"c">>
PageP == <<"p">>
PageQ == <<"q">>
ActG == <<"G">>
ActL == <<"L">>
ActP == <<"P">>

\* A small URL_MAP of the same shape as the program's: a service with two
\* pages, a page shared by two services, and (SvcC) a service without entry.
URL_MAP == (SvcA :> <<PageP, PageQ>>) @@ (SvcB :> <<PageQ>>)

\* URL_MAP.get(name, [])
UrlMapGet(name) == IF name \in DOMAIN URL_MAP THEN URL_MAP[name] ELSE <<>>

\* set(sum(URL_MAP.values(), []))
UrlMapPages == UNION {Range(URL_MAP[k]) : k \in DOMAIN URL_MAP}

(***************************************************************************)
(* AccessLevel and ActionMap                                               *)
(***************************************************************************)
UNDOCUMENTED == <<"Undocumented">>
NONE == <<"None">>

AccessLevelValues ==
  { <<"Read">>, <<"Write">>, <<"Put">>, <<"Delete">>, <<"Get">>, <<"List">>,
    <<"Permissions", SP, "management">>, <<"Tagging">>, <<"Replicate">>,
    NONE, UNDOCUMENTED }

\* ActionMap(...) with the dataclass defaults for the fields not given
ActionMap(action, access_level, resources, condition_keys, description) ==
  [ access_level   |-> access_level,
    action         |-> action,
    condition_keys |-> condition_keys,
    description    |-> description,
    orphan         |-> FALSE,
    resources      |-> resources ]

NotDocumented == <<"Not", SP, "Documented", SP, "by", SP, "AWS">>

\* The record generate_action_map builds for a known, undocumented action
UndocumentedAction(action) ==
  ActionMap(action, UNDOCUMENTED, <<>>, <<>>, NotDocumented)

(***************************************************************************)
(* HTML: a page is the sequence of its <div class="table-contents">, each  *)
(* with the <table> elements found in it; a table has its <th> elements    *)
(* and its children.  A <th> has the field string unless its .string is    *)
(* None (no text, or several children).                                    *)
(***************************************************************************)
NoAttr == "<no attribute>"

Td(text, rowspan) == [name |-> "td", text |-> text, rowspan |-> rowspan]
Tr(cells) == [name |-> "tr", children |-> cells]
THead == [name |-> "thead", children |-> <<>>]
Th(string) == [name |-> "th", string |-> string]
ThNoString == [name |-> "th"]
Ths(texts) == [i \in DOMAIN texts |-> Th(texts[i])]
Table(ths, children) == [ths |-> ths, children |-> children]
Div(tables) == [tables |-> tables]

ExpectedHeaders ==
  { <<"a", "c", "t", "i", "o", "n", "s">>,
    <<"d", "e", "s", "c", "r", "i", "p", "t", "i", "o", "n">>,
    <<"a", "c", "c", "e", "s", "s", " ", "l", "e", "v", "e", "l">>,
    <<"r", "e", "s", "o", "u", "r", "c", "e", " ", "t", "y", "p", "e", "s",
     " ", "(", "*", "r", "e", "q", "u", "i", "r", "e", "d", ")">>,
    <<"c", "o", "n", "d", "i", "t", "i", "o", "n", " ", "k", "e", "y", "s">>,
    <<"d", "e", "p", "e", "n", "d", "e", "n", "t", " ", "a", "c", "t", "i",
     "o", "n", "s">> }

\* str.lower() of one character
LowerChar(c) ==
  CASE
       c = "A" -> "a"
    [] c = "B" -> "b"
    [] c = "C" -> "c"
    [] c = "D" -> "d"
    [] c = "E" -> "e"
    [] c = "F" -> "f"
    [] c = "G" -> "g"
    [] c = "H" -> "h"
    [] c = "I" -> "i"
    [] c = "J" -> "j"
    [] c = "K" -> "k"
    [] c = "L" -> "l"
    [] c = "M" -> "m"
    [] c = "N" -> "n"
    [] c = "O" -> "o"
    [] c = "P" -> "p"
    [] c = "Q" -> "q"
    [] c = "R" -> "r"
    [] c = "S" -> "s"
    [] c = "T" -> "t"
    [] c = "U" -> "u"
    [] c = "V" -> "v"
    [] c = "W" -> "w"
    [] c = "X" -> "x"
    [] c = "Y" -> "y"
    [] c = "Z" -> "z"
    [] OTHER -> c

\* str.lower() of a header text
Lower(h) == [i \in 1..Len(h) |-> LowerChar(h[i])]

\* find_actions_table falls off its loop: it returns None
NoTable == [found |-> FALSE, exc |-> "none"]

\* find_actions_table is left by an exception
LookupRaised(e) == [found |-> FALSE, exc |-> e]

RECURSIVE FindActionsTable(_)
\* find_actions_table: the divs are visited in document order; of each the
\* first table is taken (IndexError when it has none), the .string of each
\* <th> is lowered (AttributeError when it is None), and the first table
\* whose header set is the expected one is returned
FindActionsTable(page) ==
  IF page = <<>> THEN NoTable
  ELSE IF Head(page).tables = <<>> THEN LookupRaised("IndexError")
  ELSE IF \E i \in DOMAIN Head(page).tables[1].ths :
            "string" \notin DOMAIN Head(page).tables[1].ths[i]
       THEN LookupRaised("AttributeError")
  ELSE IF ExpectedHeaders =
            {Lower(h.string) : h \in Range(Head(page).tables[1].ths)}
       THEN [found |-> TRUE, exc |-> "none", table |-> Head(page).tables[1].children]
       ELSE FindActionsTable(Tail(page))

(***************************************************************************)
(* flatten_table                                                           *)
(***************************************************************************)
\* rows = (x for x in table if x.name == "tr")
TrRows(table) == SelectSeq(table, LAMBDA x : x.name = "tr")

\* cells = [x for x in row if x.name == "td"]
TdCells(row) == SelectSeq(row.children, LAMBDA x : x.name = "td")

IntLiterals == {"-1", "0", "1", "2", "3", "4"}

\* int(s) for s in IntLiterals
IntValue(s) ==
  CASE s = "-1" -> 0 - 1
    [] s = "0" -> 0
    [] s = "1" -> 1
    [] s = "2" -> 2
    [] s = "3" -> 3
    [] s = "4" -> 4

\* x.get("rowspan", "1")
RowspanAttr(cell) == IF cell.rowspan = NoAttr THEN "1" ELSE cell.rowspan

\* processed_row = [x.text.strip() for x in cells]
FirstRowTexts(cells) == [i \in 1..Len(cells) |-> Strip(cells[i].text)]

\* rowspans = [int(x.get("rowspan", "1")) for x in cells]
FirstRowSpans(cells) == [i \in 1..Len(cells) |-> IntValue(RowspanAttr(cells[i]))]

\* range(1, max_rowspan) has this many elements
ContinuationCount(max_rowspan) == IF max_rowspan > 1 THEN max_rowspan - 1 ELSE 0

\* Mutation of IgnoreRow: the text has to start with the marker
IgnoreRowStartsWith(cells) ==
  cells[1].text # <<>> /\ Head(cells[1].text) = "SCENARIO"

\* ignore_row = "SCENARIO" in cells[0].text
IgnoreRow(cells) == Contains(cells[1].text, "SCENARIO")

RECURSIVE AppendColumns(_, _, _, _, _)
\* The loop over the columns for one continuation row: a column whose
\* rowspan is still open is counted down; any other column takes the next
\* cell of the row, unless the row is ignored.  next(cells) on an exhausted
\* iterator raises StopIteration.
AppendColumns(column, cells, row, spans, ignore_row) ==
  IF column > Len(row)
  THEN [exc |-> "none", processed_row |-> row, rowspans |-> spans]
  ELSE IF spans[column] > 1
  THEN AppendColumns(column + 1, cells, row,
                     [spans EXCEPT ![column] = @ - 1], ignore_row)
  ELSE IF ~ignore_row
  THEN IF cells = <<>>
       THEN [exc |-> "StopIteration", processed_row |-> row, rowspans |-> spans]
       ELSE AppendColumns(column + 1, Tail(cells),
                          [row EXCEPT ![column] = @ \o <<SP>> \o Strip(Head(cells).text)],
                          spans, ignore_row)
  ELSE AppendColumns(column + 1, cells, row, spans, ignore_row)

\* Mutation of AllSpansClosed: only open rowspans are refused
AllSpansAtMostOne(spans) == \A i \in 1..Len(spans) : spans[i] <= 1

\* assert all(x == 1 for x in rowspans)
AllSpansClosed(spans) == \A i \in 1..Len(spans) : spans[i] = 1

(***************************************************************************)
(* process_actions_table                                                   *)
(***************************************************************************)
PermissionOnly == <<"[permission", SP, "only]">>

\* One ActionMap from one flattened row (the AccessLevel lookup succeeds)
BuildAction(row) ==
  ActionMap(Strip(RemoveAll(row[1], PermissionOnly)),
            row[3],
            SortedSet({RemoveTok(x, "*") : x \in Range(Split(row[4]))}),
            SortedSet(Range(Split(row[5]))),
            Join(<<SP>>, Split(row[2])))

\* Mutation of BadAccessLevel: the value is trimmed before the lookup
BadAccessLevelTrimmed(flat) ==
  \E i \in 1..Len(flat) : Strip(flat[i][3]) \notin AccessLevelValues

\* AccessLevel(row[2]) raises ValueError for some row
BadAccessLevel(flat) == \E i \in 1..Len(flat) : flat[i][3] \notin AccessLevelValues

BuildActions(flat) == [i \in 1..Len(flat) |-> BuildAction(flat[i])]

(***************************************************************************)
(* generate_action_map and create_action_map                               *)
(***************************************************************************)
Diag(prefix, text) == <<prefix>> \o text

ServiceMissingUrlMap(name) == Diag("Service missing URL map: ", name)
PageMissingTable(url_name) == Diag("Page missing actions table: ", url_name)
UndocumentedFound(name, action) ==
  Diag("Undocumented action found: ", name \o <<":">> \o action)
UnmappedService(service) == Diag("Unmapped service is being published: ", service)

\* actions.keys()
Keys(actions) == {actions[i].action : i \in 1..Len(actions)}

\* Mutation of MergeAction: the dict is started afresh with the new record
MergeActionReset(actions, map) ==
  IF map.action \notin Keys(actions) THEN <<map>> ELSE actions

\* Mutation of MergeAction: the last page to document an action wins
MergeActionLastWins(actions, map) ==
  IF map.action \notin Keys(actions) THEN Append(actions, map)
  ELSE [i \in 1..Len(actions) |-> IF actions[i].action = map.action THEN map ELSE actions[i]]

\* if map.action not in actions: actions[map.action] = map
MergeAction(actions, map) ==
  IF map.action \notin Keys(actions) THEN Append(actions, map) ELSE actions

\* Mutation of GapSet: the documented names are not taken out
GapSetAll(acts, actions) == Range(acts)

\* boto_defined_actions - found_actions
GapSet(acts, actions) == Range(acts) \ Keys(actions)

\* actions[key] = value on a dict kept in insertion order
DictSet(actions, key, value) ==
  IF key \in Keys(actions)
  THEN [i \in 1..Len(actions) |-> IF actions[i].action = key THEN value ELSE actions[i]]
  ELSE Append(actions, value)

\* str.removeprefix / str.removesuffix for a one-token affix
RemovePrefix(s, tok) == IF s # <<>> /\ Head(s) = tok THEN Tail(s) ELSE s
RemoveSuffix(s, tok) ==
  IF s # <<>> /\ s[Len(s)] = tok THEN SubSeq(s, 1, Len(s) - 1) ELSE s

NoHref == <<"<no href>">>

\* service.get("href", "").removeprefix("list_").removesuffix(".html")
TocService(entry) ==
  RemoveSuffix(RemovePrefix(IF entry = NoHref THEN <<>> ELSE entry, "list_"), ".html")

TocServices(contents) == {TocService(contents[i]) : i \in 1..Len(contents)}

\* Mutation of MissingServices: the service names are taken out, not the pages
MissingServicesByName(contents) == TocServices(contents) \ DOMAIN URL_MAP

\* missing_services()
MissingServices(contents) == TocServices(contents) \ UrlMapPages

\* Mutation of SortedErrors: repeated messages are merged
SortedErrorsUnique(errors) == SortedSet(Range(errors))

\* sorted(errors)
SortedErrors(errors) == Sorted(errors)

(***************************************************************************)
(* Inputs: table rows, tables, pages, TOC contents, service definitions    *)
(***************************************************************************)
Cells(texts, spans) == [i \in 1..Len(texts) |-> Td(texts[i], spans[i])]

NoSpans == <<NoAttr, NoAttr, NoAttr, NoAttr, NoAttr, NoAttr, NoAttr>>

RowG ==
  Tr(Cells(<< <<SP, "G", SP>>, <<"a", SP, SP, "b">>, <<"Read">>,
              <<"s", "*", SP, "r">>, <<"k">>, <<>> >>, NoSpans))

RowL ==
  Tr(Cells(<< <<"L", SP>> \o PermissionOnly, <<"c">>, <<"List">>,
              <<>>, <<>>, <<>> >>, NoSpans))

RowG2 ==
  Tr(Cells(<< <<"G">>, <<"b">>, <<"Write">>, <<"r", "*">>, <<"k">>, <<>> >>,
           <<"2", "2", "2", "1", "1", "2">>))

RowP3 ==
  Tr(Cells(<< <<"P">>, <<"c">>, <<"Put">>, <<"r">>, <<>>, <<>> >>,
           <<"3", "3", "3", "1", "3", "3">>))

RowShort ==
  Tr(Cells(<< <<"L">>, <<"a">>, <<"List">>, <<"r">>, <<>>, <<>> >>,
           <<"3", "2", "3", "3", "3", "3">>))

RowOver ==
  Tr(Cells(<< <<"P">>, <<"a">>, <<"Put">>, <<>>, <<>>, <<>> >>,
           <<"2", "3", "2", "2", "2", "2">>))

RowOpen ==
  Tr(Cells(<< <<"P">>, <<"a">>, <<"Put">>, <<>>, <<>>, <<>> >>,
           <<"1", "2", "1", "1", "1", "1">>))

RowZero ==
  Tr(Cells(<< <<"L">>, <<"a">>, <<"List">>, <<>>, <<>>, <<>> >>,
           <<"0", "1", "1", "1", "1", "1">>))

RowZeroCol ==
  Tr(Cells(<< <<"L">>, <<"a">>, <<"List">>, <<>>, <<>>, <<>> >>,
           <<"2", "0", "2", "2", "2", "2">>))

RowBadAttr ==
  Tr(Cells(<< <<"G">>, <<"a">>, <<"Read">>, <<>>, <<>>, <<>> >>,
           <<"1", "x", "1", "1", "1", "1">>))

RowMaybe ==
  Tr(Cells(<< <<"G">>, <<"a">>, <<"Maybe">>, <<>>, <<>>, <<>> >>, NoSpans))

Row5 ==
  Tr(Cells(<< <<"G">>, <<"a">>, <<"Read">>, <<"r">>, <<"k">> >>, NoSpans))

Cont0 == Tr(<<>>)
Cont1 == Tr(Cells(<< <<SP, "s">> >>, NoSpans))
Cont2 == Tr(Cells(<< <<"s", "*">>, <<"c">> >>, NoSpans))
ContScenario == Tr(Cells(<< <<"SCENARIO", SP, "z">>, <<"y">> >>, NoSpans))
ContScenarioMid == Tr(Cells(<< <<"z", SP, "SCENARIO">>, <<"y">> >>, NoSpans))

RowAll2 ==
  Tr(Cells(<< <<"L">>, <<"a">>, <<"List">>, <<"r">>, <<"k">>, <<>> >>,
           <<"2", "2", "2", "2", "2", "2">>))

RowLevel1 ==
  Tr(Cells(<< <<"G">>, <<"a">>, <<"Read">>, <<>>, <<>>, <<>> >>,
           <<"2", "2", "1", "2", "2", "2">>))

ContBlank == Tr(Cells(<< <<SP>> >>, NoSpans))

RowEmptyId ==
  Tr(Cells(<< <<SP>> \o PermissionOnly \o <<SP>>, <<"a">>, <<"Read">>, <<>>, <<>>, <<>> >>,
           NoSpans))

\* The rows the tables given to flatten_table are made of
FlattenRows ==
  { RowG, RowL, RowG2, RowP3, RowShort, RowOver, RowOpen, RowZero, RowZeroCol,
    RowMaybe, RowBadAttr, Row5, Cont0, Cont1, Cont2, ContScenario,
    ContScenarioMid, RowAll2, RowEmptyId, RowLevel1, ContBlank }

FlattenTables == UNION {[1..n -> FlattenRows] : n \in 0..MaxRows}

Headers ==
  << <<"A", "c", "t", "i", "o", "n", "s">>,
    <<"D", "e", "s", "c", "r", "i", "p", "t", "i", "o", "n">>,
    <<"A", "c", "c", "e", "s", "s", " ", "l", "e", "v", "e", "l">>,
    <<"R", "e", "s", "o", "u", "r", "c", "e", " ", "t", "y", "p", "e", "s",
     " ", "(", "*", "r", "e", "q", "u", "i", "r", "e", "d", ")">>,
    <<"C", "o", "n", "d", "i", "t", "i", "o", "n", " ", "k", "e", "y", "s">>,
    <<"D", "e", "p", "e", "n", "d", "e", "n", "t", " ", "a", "c", "t", "i",
     "o", "n", "s">> >>

HeadersUpper ==
  << <<"A", "c", "t", "i", "o", "n", "s">>,
    <<"D", "e", "s", "c", "r", "i", "p", "t", "i", "o", "n">>,
    <<"A", "c", "c", "e", "s", "s", " ", "L", "e", "v", "e", "l">>,
    <<"R", "e", "s", "o", "u", "r", "c", "e", " ", "T", "y", "p", "e", "s",
     " ", "(", "*", "r", "e", "q", "u", "i", "r", "e", "d", ")">>,
    <<"C", "o", "n", "d", "i", "t", "i", "o", "n", " ", "K", "e", "y", "s">>,
    <<"D", "e", "p", "e", "n", "d", "e", "n", "t", " ", "A", "c", "t", "i",
     "o", "n", "s">> >>

OtherHeaders ==
  << <<"R", "e", "s", "o", "u", "r", "c", "e", " ", "T", "y", "p", "e", "s">>,
    <<"A", "R", "N">>,
    <<"C", "o", "n", "d", "i", "t", "i", "o", "n", " ", "K", "e", "y", "s">> >>

\* Pages: without table, with a table of other headers, with the actions
\* table (first or second on the page), and with malformed actions tables.
PageEmpty == <<>>
PageOther == << Div(<<Table(Ths(OtherHeaders), <<THead, RowG>>)>>) >>
PageGL == << Div(<<Table(Ths(Headers), <<THead, RowG, RowL>>)>>) >>
PageG2P ==
  << Div(<<Table(Ths(OtherHeaders), <<THead>>)>>),
     Div(<<Table(Ths(HeadersUpper),
                 <<THead, RowG2, Cont2, RowP3, Cont1, ContScenario>>),
           Table(Ths(Headers), <<THead, RowL>>)>>) >>
PageMaybe == << Div(<<Table(Ths(Headers), <<THead, RowL, RowMaybe>>)>>) >>
PageRow5 == << Div(<<Table(Ths(Headers), <<THead, RowG, Row5>>)>>) >>
PageOpen == << Div(<<Table(Ths(Headers), <<THead, RowL, RowOpen>>)>>) >>

\* Pages on which find_actions_table raises: a <div class="table-contents">
\* without <table>, and a table with a <th> whose .string is None
PageDivNoTable == << Div(<<>>) >>
PageThNoString ==
  << Div(<<Table(Append(Ths(OtherHeaders), ThNoString), <<THead, RowG>>)>>) >>

PageSamples ==
  { PageEmpty, PageOther, PageGL, PageG2P, PageMaybe, PageRow5, PageOpen,
    PageDivNoTable, PageThNoString }

Pages == {PageP, PageQ}

Href(service) == <<"list_">> \o service \o <<".html">>

TocSamples ==
  { << Href(PageP), Href(PageQ) >>,
    << Href(SvcA), Href(PageQ), NoHref >>,
    << Href(<<"z">>), Href(PageP), Href(<<"z">>), Href(SvcB) >>,
    << PageQ \o <<".html">>, <<"list_">> \o SvcC >> }

ActsSamples == { <<ActG>>, <<ActL, ActP, ActL>> }

ServiceNames == {SvcA, SvcB, SvcC}

ServiceInputs == UNION {[S -> ActsSamples] : S \in SUBSET ServiceNames}

(***************************************************************************)
(* State                                                                   *)
(***************************************************************************)
VARIABLES
  services,      \* create_action_map's argument: name -> list of action names
  web,           \* page name -> the page served for it
  toc,           \* the services listed in the TOC document
  entry,         \* the function that was called
  pc,            \* position in the call
  exc,           \* the exception that ended the call, or "none"
  run,           \* number of the call of create_action_map on these inputs
  prev,          \* what the previous call returned
  result,        \* what the call returned
  errors,        \* create_action_map: errors
  names,         \* create_action_map: the service names still to process
  action_map,    \* create_action_map: action_map, in insertion order
  name,          \* generate_action_map: name
  action_errors, \* generate_action_map: errors
  url_names,     \* generate_action_map: the pages still to process
  actions,       \* generate_action_map: actions, in insertion order
  gap,           \* generate_action_map: the undocumented names still to add
  table,         \* process_actions_table: table
  maps,          \* generate_action_map: the ActionMaps still to merge
  rows,          \* flatten_table: the rows not yet consumed
  flat_table,    \* flatten_table: flat_table
  processed_row, \* flatten_table: processed_row
  rowspans,      \* flatten_table: rowspans
  max_rowspan,   \* flatten_table: max_rowspan
  remaining,     \* flatten_table: iterations left of range(1, max_rowspan)
  declared,      \* history: the rowspans as declared by the block's first row
  harvest,       \* history: per service, the pages visited and their records
  ret            \* history: per service, what generate_action_map returned

inputVars == <<services, web, toc>>
callVars == <<entry, pc, exc, run, prev, result>>
createVars == <<errors, names, action_map>>
generateVars == <<name, action_errors, url_names, actions, gap, maps>>
flattenVars == <<table, rows, flat_table, processed_row, rowspans, max_rowspan,
                 remaining, declared>>
historyVars == <<harvest, ret>>
vars == <<inputVars, callVars, createVars, generateVars, flattenVars, historyVars>>

NoResult == [returned |-> FALSE]
EmptyMap == [k \in {} |-> <<>>]

\* The locals of the functions that have not been called
IdleCreate ==
  /\ errors = <<>> /\ names = <<>> /\ action_map = <<>>
IdleGenerate ==
  /\ name = <<>> /\ action_errors = <<>> /\ url_names = <<>>
  /\ actions = <<>> /\ gap = {} /\ maps = <<>>
IdleFlatten ==
  /\ rows = <<>> /\ flat_table = <<>> /\ processed_row = <<>>
  /\ rowspans = <<>> /\ max_rowspan = 1 /\ remaining = 0 /\ declared = <<>>

\* create_action_map(services) is called
Init ==
  /\ services \in ServiceInputs
  /\ web \in [Pages -> PageSamples]
  /\ toc \in TocSamples
  /\ entry = "create_action_map" /\ pc = "create" /\ exc = "none"
  /\ run = 1 /\ prev = NoResult /\ result = NoResult
  /\ IdleCreate /\ IdleGenerate /\ IdleFlatten
  /\ table = <<>>
  /\ harvest = EmptyMap /\ ret = EmptyMap

\* process_actions_table(table) is called
InitFlatten ==
  /\ services = EmptyMap /\ web = EmptyMap /\ toc = <<>>
  /\ entry = "process_actions_table" /\ pc = "flatten_row" /\ exc = "none"
  /\ run = 1 /\ prev = NoResult /\ result = NoResult
  /\ IdleCreate /\ IdleGenerate
  /\ table \in FlattenTables
  /\ rows = TrRows(table)
  /\ flat_table = <<>> /\ processed_row = <<>> /\ rowspans = <<>>
  /\ max_rowspan = 1 /\ remaining = 0 /\ declared = <<>>
  /\ harvest = EmptyMap /\ ret = EmptyMap

(***************************************************************************)
(* Steps                                                                   *)
(***************************************************************************)
\* An uncaught exception ends the call: nothing in the module catches one
Raise(e) ==
  /\ pc' = "raised" /\ exc' = e
  /\ UNCHANGED <<inputVars, entry, run, prev, result, createVars, generateVars,
                 flattenVars, historyVars>>

\* create_action_map up to its loop: the unmapped services, visited in the
\* iteration order of a set, and the sorted service names
CreateStart ==
  /\ pc = "create"
  /\ \E order \in Perms(MissingServices(toc)) :
       errors' = [i \in DOMAIN order |-> UnmappedService(order[i])]
  /\ names' = SortedSet(DOMAIN services)
  /\ action_map' = <<>>
  /\ pc' = "services"
  /\ UNCHANGED <<inputVars, entry, exc, run, prev, result, generateVars,
                 flattenVars, historyVars>>

\* generate_action_map(name, acts) is called for the next service
GenerateStart ==
  /\ pc = "services" /\ names # <<>>
  /\ name' = Head(names)
  /\ url_names' = UrlMapGet(name')
  /\ action_errors' = IF url_names' = <<>> THEN <<ServiceMissingUrlMap(name')>> ELSE <<>>
  /\ actions' = <<>> /\ gap' = {} /\ maps' = <<>>
  /\ harvest' = (name' :> <<>>) @@ harvest
  /\ pc' = "urls"
  /\ UNCHANGED <<inputVars, entry, exc, run, prev, result, createVars,
                 flattenVars, ret>>

\* find_actions_table raises on the next page: the exception leaves
\* generate_action_map and create_action_map
FindActionsTableRaises ==
  /\ pc = "urls" /\ url_names # <<>>
  /\ FindActionsTable(web[Head(url_names)]).exc # "none"
  /\ Raise(FindActionsTable(web[Head(url_names)]).exc)

\* The next page has no actions table
PageWithoutTable ==
  /\ pc = "urls" /\ url_names # <<>>
  /\ FindActionsTable(web[Head(url_names)]) = NoTable
  /\ action_errors' = Append(action_errors, PageMissingTable(Head(url_names)))
  /\ url_names' = Tail(url_names)
  /\ harvest' = [harvest EXCEPT ![name] =
                   Append(@, [url_name |-> Head(url_names), found |-> FALSE, maps |-> <<>>])]
  /\ UNCHANGED <<inputVars, callVars, createVars, name, actions, gap, maps,
                 flattenVars, ret>>

\* The next page has an actions table: process_actions_table(table) is
\* called, which calls flatten_table(table)
PageWithTable ==
  /\ pc = "urls" /\ url_names # <<>>
  /\ FindActionsTable(web[Head(url_names)]).found
  /\ table' = FindActionsTable(web[Head(url_names)]).table
  /\ rows' = TrRows(table')
  /\ flat_table' = <<>>
  /\ url_names' = Tail(url_names)
  /\ harvest' = [harvest EXCEPT ![name] =
                   Append(@, [url_name |-> Head(url_names), found |-> TRUE, maps |-> <<>>])]
  /\ pc' = "flatten_row"
  /\ UNCHANGED <<inputVars, entry, exc, run, prev, result, createVars, name,
                 action_errors, actions, gap, maps, processed_row, rowspans,
                 max_rowspan, remaining, declared, ret>>

\* flatten_table: the first row of a block
FlattenFirstRow ==
  /\ pc = "flatten_row" /\ rows # <<>>
  /\ LET cells == TdCells(Head(rows)) IN
       IF Len(cells) # 6 THEN Raise("AssertionError")
       ELSE IF \E i \in 1..Len(cells) : RowspanAttr(cells[i]) \notin IntLiterals
       THEN Raise("ValueError")
       ELSE /\ processed_row' = FirstRowTexts(cells)
            /\ rowspans' = FirstRowSpans(cells)
            /\ declared' = FirstRowSpans(cells)
            /\ max_rowspan' = FirstRowSpans(cells)[1]
            /\ remaining' = ContinuationCount(max_rowspan')
            /\ rows' = Tail(rows)
            /\ pc' = IF remaining' > 0 THEN "flatten_cont" ELSE "flatten_end"
            /\ UNCHANGED <<inputVars, entry, exc, run, prev, result, createVars,
                           generateVars, table, flat_table, historyVars>>

\* Mutation of FlattenContinuation: an exhausted row stream ends the block
FlattenContinuationLenient ==
  /\ pc = "flatten_cont"
  /\ IF rows = <<>>
     THEN /\ pc' = "flatten_end"
          /\ UNCHANGED <<inputVars, entry, exc, run, prev, result, createVars,
                         generateVars, flattenVars, historyVars>>
     ELSE LET cells == TdCells(Head(rows)) IN
       IF cells = <<>> THEN Raise("IndexError")
       ELSE LET r == AppendColumns(1, cells, processed_row, rowspans, IgnoreRow(cells)) IN
         IF r.exc # "none" THEN Raise(r.exc)
         ELSE /\ processed_row' = r.processed_row
              /\ rowspans' = r.rowspans
              /\ rows' = Tail(rows)
              /\ remaining' = remaining - 1
              /\ pc' = IF remaining' > 0 THEN "flatten_cont" ELSE "flatten_end"
              /\ UNCHANGED <<inputVars, entry, exc, run, prev, result, createVars,
                             generateVars, table, flat_table, max_rowspan,
                             declared, historyVars>>

\* flatten_table: one more row of the block
FlattenContinuation ==
  /\ pc = "flatten_cont"
  /\ IF rows = <<>> THEN Raise("StopIteration")
     ELSE LET cells == TdCells(Head(rows)) IN
       IF cells = <<>> THEN Raise("IndexError")
       ELSE LET r == AppendColumns(1, cells, processed_row, rowspans, IgnoreRow(cells)) IN
         IF r.exc # "none" THEN Raise(r.exc)
         ELSE /\ processed_row' = r.processed_row
              /\ rowspans' = r.rowspans
              /\ rows' = Tail(rows)
              /\ remaining' = remaining - 1
              /\ pc' = IF remaining' > 0 THEN "flatten_cont" ELSE "flatten_end"
              /\ UNCHANGED <<inputVars, entry, exc, run, prev, result, createVars,
                             generateVars, table, flat_table, max_rowspan,
                             declared, historyVars>>

\* flatten_table: the end of a block
FlattenEndBlock ==
  /\ pc = "flatten_end"
  /\ IF ~AllSpansClosed(rowspans) THEN Raise("AssertionError")
     ELSE /\ flat_table' = Append(flat_table, processed_row)
          /\ pc' = "flatten_row"
          /\ UNCHANGED <<inputVars, entry, exc, run, prev, result, createVars,
                         generateVars, table, rows, processed_row, rowspans,
                         max_rowspan, remaining, declared, historyVars>>

\* flatten_table returns flat_table
FlattenReturn ==
  /\ pc = "flatten_row" /\ rows = <<>>
  /\ pc' = "build"
  /\ UNCHANGED <<inputVars, entry, exc, run, prev, result, createVars,
                 generateVars, flattenVars, historyVars>>

\* process_actions_table builds its list and returns it
BuildRecords ==
  /\ pc = "build"
  /\ IF BadAccessLevel(flat_table) THEN Raise("ValueError")
     ELSE IF entry = "process_actions_table"
     THEN /\ result' = [returned |-> TRUE, maps |-> BuildActions(flat_table)]
          /\ pc' = "done"
          /\ UNCHANGED <<inputVars, entry, exc, run, prev, createVars,
                         generateVars, flattenVars, historyVars>>
     ELSE /\ maps' = BuildActions(flat_table)
          /\ harvest' = [harvest EXCEPT ![name] =
                           [@ EXCEPT ![Len(@)].maps = BuildActions(flat_table)]]
          /\ pc' = IF maps' = <<>> THEN "urls" ELSE "merge"
          /\ UNCHANGED <<inputVars, entry, exc, run, prev, result, createVars,
                         name, action_errors, url_names, actions, gap,
                         flattenVars, ret>>

\* generate_action_map: one ActionMap of the page is merged
MergeNext ==
  /\ pc = "merge"
  /\ actions' = MergeAction(actions, Head(maps))
  /\ maps' = Tail(maps)
  /\ pc' = IF maps' = <<>> THEN "urls" ELSE "merge"
  /\ UNCHANGED <<inputVars, entry, exc, run, prev, result, createVars, name,
                 action_errors, url_names, gap, flattenVars, historyVars>>

\* generate_action_map: all pages are done, the undocumented names are found
GapStart ==
  /\ pc = "urls" /\ url_names = <<>>
  /\ gap' = GapSet(services[name], actions)
  /\ pc' = "gap"
  /\ UNCHANGED <<inputVars, entry, exc, run, prev, result, createVars, name,
                 action_errors, url_names, actions, maps, flattenVars, historyVars>>

\* generate_action_map: one undocumented name, in the iteration order of a set
GapNext ==
  /\ pc = "gap"
  /\ \E action \in gap :
       /\ actions' = DictSet(actions, action, UndocumentedAction(action))
       /\ action_errors' = Append(action_errors, UndocumentedFound(name, action))
       /\ gap' = gap \ {action}
  /\ UNCHANGED <<inputVars, callVars, createVars, name, url_names, maps,
                 flattenVars, historyVars>>

\* generate_action_map returns actions, errors to create_action_map
GenerateReturn ==
  /\ pc = "gap" /\ gap = {}
  /\ ret' = (name :> [actions |-> actions, errors |-> action_errors]) @@ ret
  /\ action_map' = Append(action_map, [name |-> name, pmap |-> actions])
  /\ errors' = errors \o action_errors
  /\ names' = Tail(names)
  /\ pc' = "services"
  /\ UNCHANGED <<inputVars, entry, exc, run, prev, result, generateVars,
                 flattenVars, harvest>>

\* create_action_map returns action_map, sorted(errors)
CreateReturn ==
  /\ pc = "services" /\ names = <<>>
  /\ result' = [returned |-> TRUE, action_map |-> action_map,
                errors |-> SortedErrors(errors)]
  /\ pc' = "done"
  /\ UNCHANGED <<inputVars, entry, exc, run, prev, createVars, generateVars,
                 flattenVars, historyVars>>

\* create_action_map is called again on the same inputs
Rerun ==
  /\ pc = "done" /\ entry = "create_action_map" /\ run < MaxRuns
  /\ prev' = result /\ result' = NoResult
  /\ run' = run + 1
  /\ pc' = "create"
  /\ errors' = <<>> /\ names' = <<>> /\ action_map' = <<>>
  /\ name' = <<>> /\ action_errors' = <<>> /\ url_names' = <<>>
  /\ actions' = <<>> /\ gap' = {} /\ maps' = <<>>
  /\ table' = <<>> /\ rows' = <<>> /\ flat_table' = <<>> /\ processed_row' = <<>>
  /\ rowspans' = <<>> /\ max_rowspan' = 1 /\ remaining' = 0 /\ declared' = <<>>
  /\ harvest' = EmptyMap /\ ret' = EmptyMap
  /\ UNCHANGED <<inputVars, entry, exc>>

Next ==
  \/ CreateStart
  \/ GenerateStart
  \/ FindActionsTableRaises
  \/ PageWithoutTable
  \/ PageWithTable
  \/ FlattenFirstRow
  \/ FlattenContinuation
  \/ FlattenEndBlock
  \/ FlattenReturn
  \/ BuildRecords
  \/ MergeNext
  \/ GapStart
  \/ GapNext
  \/ GenerateReturn
  \/ CreateReturn
  \/ Rerun

Spec == Init /\ [][Next]_vars

NextFlatten ==
  \/ FlattenFirstRow
  \/ FlattenContinuation
  \/ FlattenEndBlock
  \/ FlattenReturn
  \/ BuildRecords

SpecFlatten == InitFlatten /\ [][NextFlatten]_vars

(***************************************************************************)
(* Properties                                                              *)
(***************************************************************************)
RECURSIVE ConcatMaps(_)
ConcatMaps(log) == IF log = <<>> THEN <<>> ELSE Head(log).maps \o ConcatMaps(Tail(log))

\* The ActionMaps built from the pages of service g, in page and row order
Harvested(g) == ConcatMaps(harvest[g])

\* The names documented on some page of service g
Documented(g) == {Harvested(g)[i].action : i \in 1..Len(Harvested(g))}

\* The known names of service g that no page documents
Undocumented(g) == Range(services[g]) \ Documented(g)

FatalPageError == exc \in {"AssertionError", "ValueError"}

\* C1: a fatal error while flattening a page or building its records (a
\* first row without 6 cells, rowspans not all 1 at the end of a block, an
\* unknown access level) does not end create_action_map: the call goes on
\* and the failure is only reported as a diagnostic.
C1_PageIsolation ==
  (entry = "create_action_map" /\ FatalPageError) => pc # "raised"

\* C2: whenever generate_action_map has returned for a service, the keys of
\* the returned actions include every known action name and every name
\* documented on a page of the service whose table was found.
C2_GapCompleteness ==
  \A g \in DOMAIN ret :
    (Range(services[g]) \cup Documented(g)) \subseteq Keys(ret[g].actions)

\* C2 witness: a service has returned for which some names are documented but
\* not known and some known names are not documented
C2_Witness ==
  \E g \in DOMAIN ret :
    /\ Documented(g) \ Range(services[g]) # {}
    /\ Undocumented(g) # {}
    /\ Len(harvest[g]) > 1

\* C3: in the actions returned by generate_action_map a record has orphan =
\* TRUE exactly when its name is known and undocumented; such a record has
\* access level Undocumented, the fixed description and no resources or
\* condition keys.
C3_SyntheticFlag ==
  \A g \in DOMAIN ret : \A i \in 1..Len(ret[g].actions) :
    LET rec == ret[g].actions[i] IN
      /\ rec.orphan <=> rec.action \in Undocumented(g)
      /\ rec.orphan =>
           /\ rec.access_level = UNDOCUMENTED
           /\ rec.description = NotDocumented
           /\ rec.resources = <<>> /\ rec.condition_keys = <<>>

InGenerate ==
  pc \in {"urls", "flatten_row", "flatten_cont", "flatten_end", "build", "merge", "gap"}

\* The first ActionMap harvested for service g under the given name
FirstHarvested(g, action) ==
  Harvested(g)[CHOOSE i \in 1..Len(Harvested(g)) :
                 /\ Harvested(g)[i].action = action
                 /\ \A j \in 1..(i - 1) : Harvested(g)[j].action # action]

\* C4: while generate_action_map runs, a record that is in actions stays
\* there unchanged, whatever rows, pages and undocumented names follow, and
\* merging a row adds no diagnostic; the record returned for a documented
\* name is the first one harvested for it.
C4_FirstDocumentedWins ==
  /\ [][InGenerate =>
          /\ Len(actions') >= Len(actions)
          /\ \A i \in 1..Len(actions) : actions'[i] = actions[i]
          /\ (pc = "merge" => action_errors' = action_errors)]_vars
  /\ [](\A g \in DOMAIN ret : \A i \in 1..Len(ret[g].actions) :
          ret[g].actions[i].action \in Documented(g) =>
            ret[g].actions[i] = FirstHarvested(g, ret[g].actions[i].action))

\* C4 witness: a service has returned for which two pages document the same
\* name with different records
C4_Witness ==
  \E g \in DOMAIN ret : \E i, j \in 1..Len(harvest[g]) :
    /\ i < j
    /\ \E m \in Range(harvest[g][i].maps) : \E n \in Range(harvest[g][j].maps) :
         m.action = n.action /\ m # n

\* C5: the diagnostics returned by generate_action_map hold exactly one
\* "Undocumented action found" entry for each known name that no page
\* documents, none for a documented name, and no other entry of that kind,
\* also when the list of known names repeats a name.
C5_GapDiagnostics ==
  \A g \in DOMAIN ret :
    /\ \A a \in Range(services[g]) \cup Documented(g) :
         Count(UndocumentedFound(g, a), ret[g].errors) =
           IF a \in Undocumented(g) THEN 1 ELSE 0
    /\ \A e \in Range(ret[g].errors) :
         Head(e) = "Undocumented action found: " =>
           \E a \in Undocumented(g) : e = UndocumentedFound(g, a)

\* C5 witness: a service has returned whose list of known names repeats an
\* undocumented name and also has a documented name
C5_Witness ==
  \E g \in DOMAIN ret :
    /\ \E a \in Undocumented(g) : Count(a, services[g]) > 1
    /\ Range(services[g]) \cap Documented(g) # {}

VisitedPages(g) == [i \in 1..Len(harvest[g]) |-> harvest[g][i].url_name]

\* A table of the page has exactly the expected header texts, compared
\* case-insensitively (a <th> without a string has none of them)
HasExpectedTable(page) ==
  \E i \in DOMAIN page : \E j \in DOMAIN page[i].tables :
    /\ \A k \in DOMAIN page[i].tables[j].ths :
         "string" \in DOMAIN page[i].tables[j].ths[k]
    /\ ExpectedHeaders =
         {Lower(h.string) : h \in Range(page[i].tables[j].ths)}

\* C6: for every configured page of a service on which no table with the
\* expected header set is located, generate_action_map adds exactly one
\* "Page missing actions table: <page>" diagnostic and no record, and goes
\* on: the call is not ended by an exception once such a page was taken up,
\* and when it returns every configured page was visited in order, each
\* page without such a table has its diagnostic once per visit, and the
\* known names were all reconciled by the gap detection.
C6_TableNotFound ==
  /\ [][(pc = "urls" /\ url_names # <<>>
           /\ ~HasExpectedTable(web[Head(url_names)])) =>
          /\ pc' = "urls"
          /\ url_names' = Tail(url_names)
          /\ actions' = actions
          /\ action_errors' = Append(action_errors, PageMissingTable(Head(url_names)))]_vars
  /\ []((entry = "create_action_map" /\ pc = "raised") =>
          \A i \in DOMAIN harvest[name] :
            HasExpectedTable(web[harvest[name][i].url_name]))
  /\ [](\A g \in DOMAIN ret :
          /\ VisitedPages(g) = UrlMapGet(g)
          /\ \A p \in Range(UrlMapGet(g)) :
               Count(PageMissingTable(p), ret[g].errors) =
                 IF HasExpectedTable(web[p]) THEN 0 ELSE Count(p, UrlMapGet(g))
          /\ \A i \in 1..Len(harvest[g]) :
               ~HasExpectedTable(web[harvest[g][i].url_name]) =>
                 harvest[g][i].maps = <<>>
          /\ Keys(ret[g].actions) \subseteq (Range(services[g]) \cup Documented(g))
          /\ Range(services[g]) \subseteq Keys(ret[g].actions))

\* When find_actions_table returns None for a page, its one diagnostic is
\* added, no record is taken and the loop goes on with the next page.
NotFoundContinues ==
  [][(pc = "urls" /\ url_names # <<>>
        /\ FindActionsTable(web[Head(url_names)]) = NoTable) =>
       /\ pc' = "urls"
       /\ url_names' = Tail(url_names)
       /\ actions' = actions
       /\ action_errors' = Append(action_errors, PageMissingTable(Head(url_names)))]_vars

\* A service has returned whose first page gave None and whose second page
\* gave records
NotFoundContinuesReached ==
  \E g \in DOMAIN ret :
    /\ Len(harvest[g]) = 2
    /\ ~harvest[g][1].found
    /\ harvest[g][2].maps # <<>>
    /\ PageMissingTable(harvest[g][1].url_name) \in Range(ret[g].errors)

\* A page without a table of the expected headers ended the call
LookupEndedCall ==
  /\ pc = "raised" /\ exc \in {"IndexError", "AttributeError"}
  /\ url_names # <<>> /\ ~HasExpectedTable(web[Head(url_names)])

Done == entry = "create_action_map" /\ pc = "done"

\* C7 as claimed: the returned diagnostics name as unmapped exactly the
\* published names that are not service names of URL_MAP.
C7_UnmappedGroups ==
  Done =>
    \A n \in TocServices(toc) \cup DOMAIN URL_MAP \cup UrlMapPages :
      (UnmappedService(n) \in Range(result.errors))
        <=> (n \in TocServices(toc) \ DOMAIN URL_MAP)

\* C7 amended: the returned diagnostics name as unmapped, once each, exactly
\* the published names that are not a page name listed in URL_MAP, and hold
\* no other entry of that kind.
C7_UnmappedPages ==
  Done =>
    /\ \A n \in TocServices(toc) \cup DOMAIN URL_MAP \cup UrlMapPages :
         Count(UnmappedService(n), result.errors) =
           IF n \in TocServices(toc) \ UrlMapPages THEN 1 ELSE 0
    /\ \A e \in Range(result.errors) :
         Head(e) = "Unmapped service is being published: " =>
           \E n \in TocServices(toc) \ UrlMapPages : e = UnmappedService(n)

\* C7 witness: the call returned, a published name that is a service name of
\* URL_MAP got the diagnostic and a published page name got none
C7_Witness ==
  /\ Done
  /\ \E n \in TocServices(toc) \cap DOMAIN URL_MAP :
       UnmappedService(n) \in Range(result.errors)
  /\ \E n \in TocServices(toc) \cap UrlMapPages :
       UnmappedService(n) \notin Range(result.errors)

UnmappedDiags == {UnmappedService(n) : n \in MissingServices(toc)}

RECURSIVE SumCounts(_, _)
\* The number of times d is in the diagnostics returned for the services S
SumCounts(d, S) ==
  IF S = {} THEN 0
  ELSE LET g == CHOOSE x \in S : TRUE
       IN Count(d, ret[g].errors) + SumCounts(d, S \ {g})

\* C8: the list returned by create_action_map is in non-decreasing order and
\* holds every unmapped-service diagnostic and every diagnostic returned by
\* generate_action_map for a service of the input as many times as they were
\* produced, and nothing else.
C8_DiagnosticsSorted ==
  Done =>
    /\ DOMAIN ret = DOMAIN services
    /\ \A i \in 1..(Len(result.errors) - 1) :
         ~StrLess(result.errors[i + 1], result.errors[i])
    /\ \A d \in Range(result.errors) \cup UnmappedDiags
                  \cup UNION {Range(ret[g].errors) : g \in DOMAIN ret} :
         Count(d, result.errors) =
           (IF d \in UnmappedDiags THEN 1 ELSE 0) + SumCounts(d, DOMAIN ret)

\* C8 witness: the call returned a list that repeats a diagnostic and that
\* is not in the order in which the diagnostics were produced
C8_Witness ==
  /\ Done
  /\ result.errors # errors
  /\ \E d \in Range(result.errors) : Count(d, result.errors) > 1
  /\ UnmappedDiags # {}

\* C9: a second call of create_action_map on the same inputs returns the
\* same diagnostics and the same catalog, the order of the names in each
\* service's actions included.
C9_Determinism ==
  (Done /\ prev # NoResult) => result = prev

BadBlock ==
  /\ pc \in {"flatten_cont", "flatten_end"}
  /\ \E c \in 1..Len(declared) : declared[c] < 1 \/ declared[c] > declared[1]

\* C10: flatten_table appends a row only at the end of a block, after all
\* its continuation rows, when each of the 6 rowspan counters is 1; a block
\* whose first row declares a rowspan below 1 or above that of the first
\* column never gets a row appended: it can only end in an exception.
C10_SpanClosure ==
  [][/\ flat_table' # flat_table =>
          /\ pc = "flatten_end" /\ remaining = 0
          /\ Len(rowspans) = 6
          /\ \A c \in 1..6 : rowspans[c] = 1
          /\ flat_table' = Append(flat_table, processed_row)
     /\ BadBlock =>
          /\ flat_table' = flat_table
          /\ pc' \in {"flatten_cont", "flatten_end", "raised"}]_vars

\* C10 witness: after an earlier block was appended, a block that declares a
\* rowspan of 0 or one above the block height was read to its end and the
\* call ended in the AssertionError, its counters not all 1
C10_Witness ==
  /\ entry = "process_actions_table"
  /\ pc = "raised" /\ exc = "AssertionError"
  /\ flat_table # <<>>
  /\ Len(declared) = 6 /\ declared[1] > 1 /\ remaining = 0
  /\ \E c \in 2..6 : declared[c] = 0 \/ declared[c] > declared[1]
  /\ \E c \in 1..6 : rowspans[c] # 1

(***************************************************************************)
(* Properties of flatten_table and process_actions_table                   *)
(***************************************************************************)
\* The declared rowspans of a first row, when they are integers
DeclaredSpans(row) ==
  [c \in 1..Len(TdCells(row)) |-> IntValue(RowspanAttr(TdCells(row)[c]))]

\* The columns that take a cell from physical row r (r >= 2) of a block
TakingColumns(spans, r) == {c \in 1..Len(spans) : spans[c] <= r - 1}

HasMarker(row) ==
  TdCells(row) # <<>> /\ Contains(TdCells(row)[1].text, "SCENARIO")

\* The block that starts the row stream is well-formed: 6 cells, integer
\* rowspans between 1 and that of the first column, all its rows present,
\* each continuation row with exactly the cells it has to give, no marker
ValidBlock(rs) ==
  /\ Len(TdCells(rs[1])) = 6
  /\ \A c \in 1..6 : RowspanAttr(TdCells(rs[1])[c]) \in IntLiterals
  /\ LET spans == DeclaredSpans(rs[1]) IN
       /\ \A c \in 1..6 : spans[c] >= 1 /\ spans[c] <= spans[1]
       /\ Len(rs) >= spans[1]
       /\ \A r \in 2..spans[1] :
            /\ Len(TdCells(rs[r])) = Cardinality(TakingColumns(spans, r))
            /\ ~HasMarker(rs[r])

RECURSIVE ValidRows(_)
ValidRows(rs) ==
  \/ rs = <<>>
  \/ /\ ValidBlock(rs)
     /\ ValidRows(SubSeq(rs, DeclaredSpans(rs[1])[1] + 1, Len(rs)))

ValidTable == ValidRows(TrRows(table))

\* The trimmed text physical row r of the block gives for column c
BlockText(rs, spans, r, c) ==
  IF r = 1 THEN Strip(TdCells(rs[1])[c].text)
  ELSE Strip(TdCells(rs[r])[Cardinality({d \in TakingColumns(spans, r) : d <= c})].text)

\* What the claim says of column c of the row made from the first block
ExpectedColumn(rs, c, text) ==
  LET spans == DeclaredSpans(rs[1]) IN
    /\ spans[c] = spans[1] => text = Strip(TdCells(rs[1])[c].text)
    /\ spans[c] = 1 =>
         text = Join(<<SP>>, [r \in 1..spans[1] |-> BlockText(rs, spans, r, c)])

RECURSIVE ExpectedRows(_, _)
\* flat is, block by block, what the claim says of the valid row stream rs
ExpectedRows(rs, flat) ==
  IF rs = <<>> THEN flat = <<>>
  ELSE /\ flat # <<>>
       /\ Len(Head(flat)) = 6
       /\ \A c \in 1..6 : ExpectedColumn(rs, c, Head(flat)[c])
       /\ ExpectedRows(SubSeq(rs, DeclaredSpans(rs[1])[1] + 1, Len(rs)), Tail(flat))

\* flatten_table has returned (process_actions_table may have failed after)
FlattenReturned ==
  \/ pc \in {"build", "done"}
  \/ pc = "raised" /\ exc = "ValueError" /\ rows = <<>> /\ remaining = 0

\* C11: for a valid table flatten_table returns, in document order, one row
\* of 6 fields per block; a column whose rowspan is the block height holds
\* the trimmed text of the first row, a column of rowspan 1 the trimmed texts
\* of all rows of the block joined by single spaces.
C11_FlattenResult ==
  (entry = "process_actions_table" /\ ValidTable) =>
    /\ pc = "raised" => FlattenReturned
    /\ FlattenReturned => ExpectedRows(TrRows(table), flat_table)

\* Every continuation row of every block of the table has a cell
RECURSIVE NoEmptyContinuation(_)
NoEmptyContinuation(rs) ==
  \/ rs = <<>>
  \/ /\ \A r \in 2..DeclaredSpans(rs[1])[1] : TdCells(rs[r]) # <<>>
     /\ NoEmptyContinuation(SubSeq(rs, DeclaredSpans(rs[1])[1] + 1, Len(rs)))

\* C11 holds of the valid tables in which every continuation row has a cell
FlattenResultNonEmptyRows ==
  (entry = "process_actions_table" /\ ValidTable /\ NoEmptyContinuation(TrRows(table))) =>
    /\ pc = "raised" => FlattenReturned
    /\ FlattenReturned => ExpectedRows(TrRows(table), flat_table)

\* A valid table of two blocks, one of them of several rows, was flattened
FlattenResultReached ==
  /\ entry = "process_actions_table" /\ ValidTable /\ pc = "build"
  /\ Len(flat_table) = 2
  /\ Len(table) = 3

\* C12: process_actions_table returns only records whose access level is
\* one of the 11 values of AccessLevel; when a flattened row has an access
\* level that is not exactly one of them, the call ends in a ValueError and
\* returns nothing.
C12_ClosedVocabulary ==
  /\ []((entry = "process_actions_table" /\ pc = "done") =>
          \A i \in 1..Len(result.maps) :
            result.maps[i].access_level \in AccessLevelValues)
  /\ [][(pc = "build" /\ \E i \in 1..Len(flat_table) :
                           flat_table[i][3] \notin AccessLevelValues) =>
          /\ pc' = "raised" /\ exc' = "ValueError"
          /\ result' = result /\ maps' = maps]_vars

\* C12 witness: the call ended in the ValueError on a table whose first
\* flattened row has a valid access level and whose second has one that is
\* valid but for a trailing space
C12_Witness ==
  /\ entry = "process_actions_table"
  /\ pc = "raised" /\ exc = "ValueError" /\ rows = <<>> /\ result = NoResult
  /\ Len(flat_table) = 2
  /\ flat_table[1][3] \in AccessLevelValues
  /\ flat_table[2][3] \notin AccessLevelValues
  /\ Strip(flat_table[2][3]) \in AccessLevelValues

\* The identifier process_actions_table makes of a flattened row
Identifier(row) == Strip(RemoveAll(row[1], PermissionOnly))

\* C13: a flattened row whose identifier is empty once "[permission only]"
\* is removed and the rest trimmed makes process_actions_table fail, so that
\* no returned record has an empty action.
C13_NonEmptyIdentifier ==
  (entry = "process_actions_table" /\ pc = "done") =>
    /\ \A i \in 1..Len(flat_table) : Identifier(flat_table[i]) # <<>>
    /\ \A i \in 1..Len(result.maps) : result.maps[i].action # <<>>

\* C14: a continuation row without marker whose number of cells differs from
\* the number of columns whose counter is 1, be it fewer or more cells, ends
\* flatten_table in an exception.
C14_ContinuationCellCount ==
  [][(/\ pc = "flatten_cont" /\ rows # <<>>
      /\ ~HasMarker(Head(rows))
      /\ Len(TdCells(Head(rows))) #
           Cardinality({c \in 1..Len(rowspans) : rowspans[c] = 1})) =>
       pc' = "raised"]_vars

\* C15: a continuation row whose first cell contains "SCENARIO" is consumed
\* and counted as one of the block's continuation rows without changing any
\* of the 6 accumulated texts, whatever its cells; a block whose counters are
\* all 1 at its end is appended as one row.
C15_IgnoreMarkerRows ==
  /\ [][(pc = "flatten_cont" /\ rows # <<>> /\ HasMarker(Head(rows))) =>
          /\ processed_row' = processed_row
          /\ rows' = Tail(rows)
          /\ remaining' = remaining - 1
          /\ flat_table' = flat_table
          /\ pc' = IF remaining = 1 THEN "flatten_end" ELSE "flatten_cont"]_vars
  /\ [][(pc = "flatten_end" /\ Len(rowspans) = 6
           /\ \A c \in 1..6 : rowspans[c] = 1) =>
          flat_table' = Append(flat_table, processed_row)]_vars

\* C15 witness: a block of two rows whose second row has the marker inside
\* the text of its first cell was flattened to the texts of its first row
C15_Witness ==
  /\ entry = "process_actions_table" /\ pc = "build"
  /\ Len(table) = 2
  /\ HasMarker(table[2])
  /\ Head(TdCells(table[2])[1].text) # "SCENARIO"
  /\ declared # <<>> /\ declared[1] = 2
  /\ flat_table = <<FirstRowTexts(TdCells(table[1]))>>

\* C16: a block with more continuation rows to come than the row stream has
\* left never gets a row appended and never lets flatten_table return: the
\* call goes on consuming rows and ends in StopIteration when none is left.
C16_TruncatedBlock ==
  [][/\ (pc = "flatten_cont" /\ remaining > Len(rows)) =>
          /\ flat_table' = flat_table
          /\ pc' \in {"flatten_cont", "raised"}
          /\ pc' = "flatten_cont" => remaining' > Len(rows')
     /\ (pc = "flatten_cont" /\ rows = <<>>) =>
          /\ pc' = "raised" /\ exc' = "StopIteration"
          /\ result' = NoResult]_vars

\* C16 witness: after a first block was appended, a block of declared height
\* 3 took its one remaining row and the call ended in StopIteration
C16_Witness ==
  /\ entry = "process_actions_table"
  /\ pc = "raised" /\ exc = "StopIteration"
  /\ rows = <<>> /\ remaining = 1
  /\ declared # <<>> /\ declared[1] = 3
  /\ Len(flat_table) = 1
  /\ result = NoResult

====
